---------------------------- MODULE Spec2Model ----------------------------
(***************************************************************************)
(* A model of recbole/MetaModule/MetaUtils.py: GradCollector,              *)
(* create_meta_dataset, MetaCollector and EmbeddingTable.                  *)
(*                                                                         *)
(* Tensors are Python objects: a variable or a dictionary slot holds a     *)
(* reference, and `heap` gives the value behind each reference, so that    *)
(* an in-place operation (+=) is seen through every alias.                 *)
(***************************************************************************)
EXTENDS Integers, Sequences, FiniteSets, TLC

VARIABLES
    heap,       \* tensor objects: reference -> value (a sequence of elements)
    gradDict,   \* GradCollector.gradDict: sequence of [name, ref], insertion order
    dumped,     \* the mapping returned by the last dumpGrad (held by the caller)
    gLast,      \* the last GradCollector call: [op, arg, err, ret]
    cycle,      \* history: the tuples accumulated since the collector was empty
    nops,       \* number of GradCollector calls made
    config,     \* the Config object handed to create_meta_dataset
    files,      \* the file system: path -> pickled dataset, for the paths that exist
    dLast,      \* the last step on the dataset side: [op, dataset]
    dsteps,     \* number of steps made on the dataset side
    register,   \* MetaCollector.register: the evidence kinds the metrics need
    data_struct,\* MetaCollector.data_struct: kind -> what was collected
    cLast,      \* the last MetaCollector call
    dataset,    \* EmbeddingTable.dataset: [fields, field2type]
    embeddingFields, \* EmbeddingTable.embeddingFields: the ordered field list
    embeddingDict,   \* EmbeddingTable.embeddingDict: field -> embedding matrix
    eLast,      \* the last EmbeddingTable call: [op, interaction, weights, err, out]
    ePrev,      \* the EmbeddingTable call before it
    nupdates,   \* optimizer steps made on the embedding matrices
    taskObjs,   \* the Task objects constructed so far, in order
    tLast,      \* the last Task construction: [op, taskInfo, spt, qrt, err]
    batch,      \* a meta-batch shared among workers: [tuples, owner]
    wheap,      \* the tensor objects of the process the workers run in
    worker,     \* per worker, its private GradCollector: [gradDict, done, dump]
    shared      \* the shared GradCollector: [gradDict, merged, averaged]

gradVars == <<heap, gradDict, dumped, gLast, cycle, nops>>

datasetVars == <<config, files, dLast, dsteps>>

collectorVars == <<register, data_struct, cLast>>

embeddingVars ==
    <<dataset, embeddingFields, embeddingDict, eLast, ePrev, nupdates>>

taskVars == <<taskObjs, tLast>>

vars == <<heap, gradDict, dumped, gLast, cycle, nops,
          config, files, dLast, dsteps,
          register, data_struct, cLast,
          dataset, embeddingFields, embeddingDict, eLast, ePrev, nupdates,
          taskObjs, tLast,
          batch, wheap, worker, shared>>

mergeVars == <<batch, wheap, worker, shared>>

\* what a step of one component leaves alone
notGradVars == <<datasetVars, collectorVars, embeddingVars, taskVars, mergeVars>>

notDatasetVars == <<gradVars, collectorVars, embeddingVars, taskVars, mergeVars>>

notCollectorVars == <<gradVars, datasetVars, embeddingVars, taskVars, mergeVars>>

notEmbeddingVars == <<gradVars, datasetVars, collectorVars, taskVars, mergeVars>>

notTaskVars == <<gradVars, datasetVars, collectorVars, embeddingVars, mergeVars>>

notMergeVars == <<gradVars, datasetVars, collectorVars, embeddingVars, taskVars>>

(***************************************************************************)
(* Bounds.                                                                 *)
(***************************************************************************)
\* GradCollector calls in one run
MaxOps == 4
\* the largest denominator handed to averageGrad
MaxSize == 3
\* steps on the dataset side in one run (calls and changes of the environment)
MaxDatasetSteps == 5
\* tracked arguments taken from dataset_arguments
NumDatasetArgs == 2
\* query items of a task
MaxItems == 3
\* records in a batch handed to the embedding table
MaxBatch == 2
\* optimizer steps on the embedding matrices in one run
MaxUpdates == 1
\* Task objects constructed in one run
MaxTasks == 2
\* records in a support set or a query set
MaxRecords == 2
\* users of the training data
MaxUsers == 2
\* gradient tuples of a meta-batch shared among workers
MaxMetaBatch == 3

(***************************************************************************)
(* Float elements.  An element is <<n, d>>: for d > 0 the rational n/d in  *)
(* lowest terms; d = 0 stands for the IEEE values a division by zero       *)
(* produces: <<1,0>> = inf, <<-1,0>> = -inf, <<0,0>> = nan.                *)
(***************************************************************************)
Abs(x) == IF x < 0 THEN -x ELSE x

Sign(x) == IF x > 0 THEN 1 ELSE IF x < 0 THEN -1 ELSE 0

RECURSIVE GCD(_, _)
GCD(a, b) == IF b = 0 THEN a ELSE GCD(b, a % b)

Norm(n, d) ==
    IF d = 0 THEN <<Sign(n), 0>>
    ELSE LET s == Sign(d)
             g == GCD(Abs(n), Abs(d))
         IN  <<(s * n) \div g, (s * d) \div g>>

Elem(n) == <<n, 1>>

NaN == <<0, 0>>

\* float addition
EAdd(a, b) ==
    IF a = NaN \/ b = NaN THEN NaN
    ELSE IF a[2] = 0 /\ b[2] = 0 THEN (IF a = b THEN a ELSE NaN)
    ELSE IF a[2] = 0 THEN a
    ELSE IF b[2] = 0 THEN b
    ELSE Norm(a[1] * b[2] + b[1] * a[2], a[2] * b[2])

\* float division by the Python integer `size`: no exception, x/0 is inf or nan
EDiv(a, size) ==
    IF a = NaN THEN NaN
    ELSE IF a[2] = 0 THEN <<a[1] * (IF size < 0 THEN -1 ELSE 1), 0>>
    ELSE Norm(a[1], a[2] * size)

\* torch broadcasting of an in-place add on 1-D tensors: the right operand
\* has the left operand's length or length 1, otherwise RuntimeError
CanAddInPlace(lhs, rhs) == Len(rhs) = Len(lhs) \/ Len(rhs) = 1

\* lhs += rhs
TAdd(lhs, rhs) ==
    [i \in 1..Len(lhs) |-> EAdd(lhs[i], rhs[IF Len(rhs) = 1 THEN 1 ELSE i])]

\* tensor / size: a new tensor
TDiv(t, size) == [i \in 1..Len(t) |-> EDiv(t[i], size)]

(***************************************************************************)
(* GradCollector.                                                          *)
(***************************************************************************)
\* GradCollector.__init__: self.paramNameList, as list(state_dict().keys())
paramNameList == <<"w", "b">>

\* the gradient tensors the caller holds (the results of autograd.grad)
CallerTensors == <<
    <<Elem(1)>>,
    <<Elem(2)>>,
    <<Elem(1), Elem(3)>> >>

CallerRefs == 1..Len(CallerTensors)

\* gradient tuples the caller can pass: any of its tensors at each position,
\* and any length from empty to one entry more than the name list
GradTuples ==
    UNION {[1..n -> CallerRefs] : n \in 0..(Len(paramNameList) + 1)}

Sizes == (-1)..MaxSize

\* `name in self.gradDict`
HasKey(gd, name) == \E i \in 1..Len(gd) : gd[i].name = name

\* position of `name` in the ordered dictionary
KeyIndex(gd, name) == CHOOSE i \in 1..Len(gd) : gd[i].name = name

\* the references held by a dictionary
DictRefs(gd) == {gd[i].ref : i \in 1..Len(gd)}

\* a reference no live object has
FreshRef(hp) ==
    CHOOSE r \in 1..(Cardinality(DOMAIN hp) + 1) :
        r \notin DOMAIN hp /\ \A q \in 1..(r - 1) : q \in DOMAIN hp

\* an object with no reference left is collected
Collect(hp, live) == [r \in (DOMAIN hp) \cap (CallerRefs \cup live) |-> hp[r]]

\* GradCollector.addGrad, from position `index` of the name list on
RECURSIVE AddGradFrom(_, _, _, _)
AddGradFrom(index, gd, hp, gradTuple) ==
    IF index > Len(paramNameList)
    THEN [gradDict |-> gd, heap |-> hp, err |-> "none"]
    ELSE IF index > Len(gradTuple)
    THEN [gradDict |-> gd, heap |-> hp, err |-> "IndexError"]
    ELSE LET name == paramNameList[index]
             g    == gradTuple[index]
         IN  IF ~HasKey(gd, name)
             THEN AddGradFrom(index + 1,
                              Append(gd, [name |-> name, ref |-> g]),
                              hp, gradTuple)
             ELSE LET acc == gd[KeyIndex(gd, name)].ref
                  IN  IF CanAddInPlace(hp[acc], hp[g])
                      THEN AddGradFrom(index + 1, gd,
                                       [hp EXCEPT ![acc] = TAdd(hp[acc], hp[g])],
                                       gradTuple)
                      ELSE [gradDict |-> gd, heap |-> hp, err |-> "RuntimeError"]

\* GradCollector.addGrad
addGradResult(gd, hp, gradTuple) == AddGradFrom(1, gd, hp, gradTuple)

\* GradCollector.averageGrad, from entry `k` of the dictionary on
RECURSIVE AverageFrom(_, _, _, _)
AverageFrom(k, gd, hp, size) ==
    IF k > Len(gd)
    THEN [gradDict |-> gd, heap |-> hp, err |-> "none"]
    ELSE LET r == FreshRef(hp)
         IN  AverageFrom(k + 1,
                         [gd EXCEPT ![k].ref = r],
                         [x \in (DOMAIN hp) \cup {r} |->
                             IF x = r THEN TDiv(hp[gd[k].ref], size) ELSE hp[x]],
                         size)

\* GradCollector.averageGrad
averageGradResult(gd, hp, size) == AverageFrom(1, gd, hp, size)

\* clearGrad that leaves the dictionary as it is
clearGradKeeps(gd) == gd

\* GradCollector.clearGrad: self.gradDict = OrderedDict()
clearGradResult(gd) == <<>>

\* GradCollector.dumpGrad: grad = self.gradDict; self.clearGrad(); return grad
dumpGradResult(gd) == [ret |-> gd, gradDict |-> clearGradResult(gd)]

(***************************************************************************)
(* History of the accumulation cycle, for the sum-then-average property:   *)
(* the values supplied by the full-length addGrad calls made since the     *)
(* collector was empty.  phase is "adding" while only such calls were      *)
(* made, "averaged" once averageGrad(n) followed n of them, and "void"     *)
(* after anything else.                                                    *)
(***************************************************************************)
EmptyCycle == [phase |-> "adding", adds |-> <<>>]

\* the values of the tensors of a tuple, as the caller supplies them
Supplied(hp, gradTuple) == [i \in 1..Len(gradTuple) |-> hp[gradTuple[i]]]

SameShapes(a, b) ==
    Len(a) = Len(b) /\ \A i \in 1..Len(a) : Len(a[i]) = Len(b[i])

CycleAfterAdd(cy, hp, gradTuple, err) ==
    LET vals == Supplied(hp, gradTuple)
    IN  IF /\ cy.phase = "adding"
           /\ err = "none"
           /\ Len(gradTuple) = Len(paramNameList)
           /\ (cy.adds # <<>> => SameShapes(cy.adds[1], vals))
        THEN [phase |-> "adding", adds |-> Append(cy.adds, vals)]
        ELSE [phase |-> "void", adds |-> <<>>]

CycleAfterAverage(cy, size) ==
    IF cy.phase = "adding" /\ size >= 1 /\ size = Len(cy.adds)
    THEN [phase |-> "averaged", adds |-> cy.adds]
    ELSE [phase |-> "void", adds |-> <<>>]

(***************************************************************************)
(* GradCollector: the calls.                                               *)
(***************************************************************************)
InitGrad ==
    /\ heap = [r \in CallerRefs |-> CallerTensors[r]]
    /\ gradDict = <<>>
    /\ dumped = <<>>
    /\ gLast = [op |-> "init", arg |-> <<>>, err |-> "none", ret |-> <<>>]
    /\ cycle = EmptyCycle
    /\ nops = 0

\* collector.addGrad(gradTuple)
addGrad ==
    /\ nops < MaxOps
    /\ \E gradTuple \in GradTuples :
          LET r == addGradResult(gradDict, heap, gradTuple)
          IN  /\ gradDict' = r.gradDict
              /\ heap' = Collect(r.heap, DictRefs(r.gradDict) \cup DictRefs(dumped))
              /\ gLast' = [op |-> "addGrad", arg |-> gradTuple,
                           err |-> r.err, ret |-> <<>>]
              /\ cycle' = CycleAfterAdd(cycle, heap, gradTuple, r.err)
    /\ nops' = nops + 1
    /\ UNCHANGED dumped
    /\ UNCHANGED notGradVars

\* collector.averageGrad(size)
averageGrad ==
    /\ nops < MaxOps
    /\ \E size \in Sizes :
          LET r == averageGradResult(gradDict, heap, size)
          IN  /\ gradDict' = r.gradDict
              /\ heap' = Collect(r.heap, DictRefs(r.gradDict) \cup DictRefs(dumped))
              /\ gLast' = [op |-> "averageGrad", arg |-> size,
                           err |-> r.err, ret |-> <<>>]
              /\ cycle' = CycleAfterAverage(cycle, size)
    /\ nops' = nops + 1
    /\ UNCHANGED dumped
    /\ UNCHANGED notGradVars

\* collector.clearGrad()
clearGrad ==
    /\ nops < MaxOps
    /\ gradDict' = clearGradResult(gradDict)
    /\ heap' = Collect(heap, DictRefs(gradDict') \cup DictRefs(dumped))
    /\ gLast' = [op |-> "clearGrad", arg |-> <<>>, err |-> "none", ret |-> <<>>]
    /\ cycle' = EmptyCycle
    /\ nops' = nops + 1
    /\ UNCHANGED dumped
    /\ UNCHANGED notGradVars

\* grad = collector.dumpGrad()
dumpGrad ==
    /\ nops < MaxOps
    /\ LET r == dumpGradResult(gradDict)
       IN  /\ gradDict' = r.gradDict
           /\ dumped' = r.ret
           /\ heap' = Collect(heap, DictRefs(r.gradDict) \cup DictRefs(r.ret))
           /\ gLast' = [op |-> "dumpGrad", arg |-> <<>>, err |-> "none",
                        ret |-> r.ret]
    /\ cycle' = EmptyCycle
    /\ nops' = nops + 1
    /\ UNCHANGED notGradVars

NextGrad == addGrad \/ averageGrad \/ clearGrad \/ dumpGrad


(***************************************************************************)
(* GradCollector: properties.                                              *)
(***************************************************************************)
\* the element-wise sum of position i of the first k accumulated tuples
RECURSIVE SumAt(_, _, _)
SumAt(adds, i, k) ==
    IF k = 1 THEN adds[1][i] ELSE TAdd(SumAt(adds, i, k - 1), adds[k][i])

\* the element-wise arithmetic mean of position i of the accumulated tuples
MeanAt(adds, i) == TDiv(SumAt(adds, i, Len(adds)), Len(adds))

\* the value the collector holds for the i-th parameter name
Held(gd, hp, i) == hp[gd[i].ref]

\* the key sequence of a mapping
Keys(gd) == [i \in 1..Len(gd) |-> gd[i].name]

\* C1: after n >= 1 addGrad calls on an empty collector, each with a tuple of
\* |P| tensors of consistent shapes, and one averageGrad(n), the collector
\* holds for every parameter name the element-wise arithmetic mean of the n
\* values supplied at that position (whatever the order, and also when the
\* same tensor object was supplied more than once).
C1_SumThenAverageIsMean ==
    cycle.phase = "averaged" =>
        /\ Keys(gradDict) = paramNameList
        /\ \A i \in 1..Len(paramNameList) :
              Held(gradDict, heap, i) = MeanAt(cycle.adds, i)

\* C2: after dumpGrad or clearGrad the mapping is empty; dumpGrad on an empty
\* collector (a never-used one too) returns an empty mapping without error;
\* and the next successful addGrad(g) leaves exactly g per parameter name,
\* nothing of what was accumulated before the reset.
C2_ResetIsFresh ==
    [][/\ (gLast'.op \in {"dumpGrad", "clearGrad"} => gradDict' = <<>>)
       /\ (gLast'.op = "dumpGrad" /\ gradDict = <<>> =>
              gLast'.ret = <<>> /\ gLast'.err = "none")
       /\ ((/\ gLast.op \in {"dumpGrad", "clearGrad"}
            /\ gLast'.op = "addGrad"
            /\ gLast'.err = "none") =>
               (/\ Keys(gradDict') = paramNameList
                /\ \A i \in 1..Len(paramNameList) :
                      Held(gradDict', heap', i) = heap[gLast'.arg[i]]))
      ]_vars

\* C2 witness: something was accumulated and drained, and the addGrad that
\* followed the reset left exactly the supplied values.
C2_Witness ==
    /\ gLast.op = "addGrad" /\ gLast.err = "none"
    /\ dumped # <<>>
    /\ cycle.phase = "adding" /\ Len(cycle.adds) = 1
    /\ \A i \in 1..Len(paramNameList) :
          Held(gradDict, heap, i) = cycle.adds[1][i]

\* C3: addGrad with a tuple whose length differs from the name list's
\* (shorter or longer) ends in an error.
C3_WrongLengthFails ==
    (gLast.op = "addGrad" /\ Len(gLast.arg) # Len(paramNameList)) =>
        gLast.err # "none"

\* C4: a failing addGrad leaves the mapping as it was: no accumulator created,
\* none increased.
C4_FailedAddChangesNothing ==
    [][(gLast'.op = "addGrad" /\ gLast'.err # "none") =>
          /\ Keys(gradDict') = Keys(gradDict)
          /\ \A i \in 1..Len(gradDict) :
                Held(gradDict', heap', i) = Held(gradDict, heap, i)
      ]_vars

\* C5: averageGrad(size) with size <= 0 fails (and so divides nothing).
C5_NonPositiveSizeFails ==
    (gLast.op = "averageGrad" /\ gLast.arg <= 0) => gLast.err # "none"

\* C12: in every state reached by addGrad, averageGrad, dumpGrad and clearGrad
\* calls, failing ones included, the mapping is empty or its key sequence is
\* exactly the parameter-name list in its order, never a strict prefix or a
\* subset of it.
C12_KeysEmptyOrAll ==
    gradDict = <<>> \/ Keys(gradDict) = paramNameList

\* C17: the mapping returned by dumpGrad keeps the values it held when it
\* was returned: no later addGrad, averageGrad, clearGrad or dumpGrad on the
\* collector changes its key set or one of its values.
C17_DumpedMappingIsolated ==
    [][gLast'.op # "dumpGrad" =>
          /\ Keys(dumped') = Keys(dumped)
          /\ \A i \in 1..Len(dumped) :
                Held(dumped', heap', i) = Held(dumped, heap, i)
      ]_vars

\* C18: no call on the collector changes the value of a gradient tensor the
\* caller supplied: after addGrad(g1), addGrad(g2) and averageGrad(size) the
\* caller's tensors have the values they had when they were passed in.
C18_CallerTensorsUnchanged ==
    [][\A r \in CallerRefs : heap'[r] = heap[r]]_vars

(***************************************************************************)
(* create_meta_dataset.                                                    *)
(***************************************************************************)
\* recbole.utils.argument_list.dataset_arguments (the first NumDatasetArgs)
dataset_arguments ==
    SubSeq(<<"load_col", "rm_dup_inter", "val_interval", "filter_inter_by_user_or_item">>,
           1, NumDatasetArgs)

\* the arguments compared at line 100
TrackedArguments == dataset_arguments \o <<"seed", "repeatable">>

\* the values an argument of the configuration takes
ArgValues == {"a", "b"}

\* dataset_save_path unset
None == "None"

SavePaths == {None, "custom.pth"}

\* os.path.join(config['checkpoint_dir'], f'{config["dataset"]}-MetaDataset.pth')
default_file == "saved/ml-100k-MetaDataset.pth"

\* file = config['dataset_save_path'] or default_file
DatasetFile(cfg) ==
    IF cfg["dataset_save_path"] # None THEN cfg["dataset_save_path"] ELSE default_file

\* the loop of lines 99-103, from argument k on
RECURSIVE ArgsUnchangedFrom(_, _, _, _)
ArgsUnchangedFrom(k, args, cfg, dcfg) ==
    IF k > Len(args) THEN TRUE
    ELSE IF cfg[args[k]] # dcfg[args[k]] THEN FALSE
    ELSE ArgsUnchangedFrom(k + 1, args, cfg, dcfg)

\* the loop that forgets 'seed' and 'repeatable'
ArgsUnchangedListOnly(cfg, dcfg) == ArgsUnchangedFrom(1, dataset_arguments, cfg, dcfg)

\* dataset_args_unchanged, lines 99-103
DatasetArgsUnchanged(cfg, dcfg) == ArgsUnchangedFrom(1, TrackedArguments, cfg, dcfg)

\* MetaDataset(config): a new dataset, built from the current configuration
MetaDataset(cfg, serial) == [config |-> cfg, id |-> serial]

\* dataset.save(): pickles the dataset under the checkpoint directory
SaveDataset(ds, fs) ==
    [f \in (DOMAIN fs) \cup {default_file} |-> IF f = default_file THEN ds ELSE fs[f]]

\* create_meta_dataset(config): the dataset returned and the files left
create_meta_datasetResult(cfg, fs, serial) ==
    LET file == DatasetFile(cfg)
    IN  IF file \in DOMAIN fs /\ DatasetArgsUnchanged(cfg, fs[file].config)
        THEN [dataset |-> fs[file], files |-> fs]
        ELSE LET ds == MetaDataset(cfg, serial)
             IN  [dataset |-> ds,
                  files |-> IF cfg["save_dataset"] THEN SaveDataset(ds, fs) ELSE fs]

ConfigKeys == {TrackedArguments[i] : i \in 1..Len(TrackedArguments)}

InitDataset ==
    /\ config = [k \in ConfigKeys \cup {"save_dataset", "dataset_save_path"} |->
                    IF k = "save_dataset" THEN TRUE
                    ELSE IF k = "dataset_save_path" THEN None
                    ELSE "a"]
    /\ files = <<>>
    /\ dLast = [op |-> "init", dataset |-> MetaDataset(config, 0)]
    /\ dsteps = 0

\* dataset = create_meta_dataset(config)
create_meta_dataset ==
    /\ dsteps < MaxDatasetSteps
    /\ LET r == create_meta_datasetResult(config, files, dsteps + 1)
       IN  /\ files' = r.files
           /\ dLast' = [op |-> "create_meta_dataset", dataset |-> r.dataset]
    /\ dsteps' = dsteps + 1
    /\ UNCHANGED config
    /\ UNCHANGED notDatasetVars

\* the user changes one entry of the configuration between two runs
SetConfig ==
    /\ dsteps < MaxDatasetSteps
    /\ \E k \in DOMAIN config :
          \E v \in (IF k = "save_dataset" THEN BOOLEAN
                    ELSE IF k = "dataset_save_path" THEN SavePaths
                    ELSE ArgValues) :
             /\ v # config[k]
             /\ config' = [config EXCEPT ![k] = v]
    /\ dLast' = [op |-> "SetConfig", dataset |-> dLast.dataset]
    /\ dsteps' = dsteps + 1
    /\ UNCHANGED files
    /\ UNCHANGED notDatasetVars

\* the user copies the saved dataset to the path dataset_save_path names
CopyFile ==
    /\ dsteps < MaxDatasetSteps
    /\ default_file \in DOMAIN files
    /\ files' = [f \in (DOMAIN files) \cup {"custom.pth"} |->
                    IF f = "custom.pth" THEN files[default_file] ELSE files[f]]
    /\ dLast' = [op |-> "CopyFile", dataset |-> dLast.dataset]
    /\ dsteps' = dsteps + 1
    /\ UNCHANGED config
    /\ UNCHANGED notDatasetVars

\* the user removes a saved dataset
RemoveFile ==
    /\ dsteps < MaxDatasetSteps
    /\ \E f \in DOMAIN files :
          files' = [g \in (DOMAIN files) \ {f} |-> files[g]]
    /\ dLast' = [op |-> "RemoveFile", dataset |-> dLast.dataset]
    /\ dsteps' = dsteps + 1
    /\ UNCHANGED config
    /\ UNCHANGED notDatasetVars

NextDataset == create_meta_dataset \/ SetConfig \/ CopyFile \/ RemoveFile

(***************************************************************************)
(* MetaCollector.  Positions of a tensor are counted from 1 here (torch    *)
(* counts them from 0).                                                    *)
(***************************************************************************)
\* config['topk'], the cutoffs of the ranking metrics
topk == <<1, 2>>

\* max(self.topk)
RECURSIVE MaxOf(_)
MaxOf(seq) ==
    IF Len(seq) = 1 THEN seq[1]
    ELSE LET m == MaxOf(Tail(seq)) IN IF seq[1] > m THEN seq[1] ELSE m

\* the evidence kinds eval_collect asks the register for
EvalKinds == {"rec.score", "data.label", "rec.topk"}

\* the kind data_collect tests with self.register.need
DataKinds == {"data.num_users"}

\* train_data.getUserList(): the users of the training data
UserLists == {[i \in 1..n |-> i] : n \in 0..MaxUsers}

\* predicted scores (in tenths) and labels of the query items
ScoreValues == {1, 5, 9}

LabelValues == {0, 1}

Range(f) == {f[i] : i \in DOMAIN f}

\* torch.topk(t, k, dim=-1) on a 1-D tensor: the index tensors it can return.
\* The k entries are distinct positions, in descending order of value, and no
\* position left out holds more than the last one taken; which of several
\* equal values is taken, and in which order, is not fixed by torch.
TopkIndices(t, k) ==
    {idx \in [1..k -> 1..Len(t)] :
        /\ \A i, j \in 1..k : i < j => idx[i] # idx[j] /\ t[idx[i]] >= t[idx[j]]
        /\ \A p \in 1..Len(t) : p \notin Range(idx) => t[p] <= t[idx[k]]}

\* self.register.need(kind)
Need(reg, kind) == kind \in reg

\* self.data_struct.update_tensor(name, value): the first value is stored,
\* a later one is concatenated along dimension 0
update_tensor(ds, name, value) ==
    [n \in (DOMAIN ds) \cup {name} |->
        IF n # name THEN ds[n]
        ELSE IF name \in DOMAIN ds THEN ds[name] \o value ELSE value]

\* pos_matrix = zeros_like(eval_pred); pos_matrix[label_topk_idx] = 1
PosMatrix(eval_pred, label_topk_idx) ==
    [p \in 1..Len(eval_pred) |-> IF p \in Range(label_topk_idx) THEN 1 ELSE 0]

\* a sum of the entries of a 1-D tensor
RECURSIVE SumSeq(_)
SumSeq(seq) == IF seq = <<>> THEN 0 ELSE seq[1] + SumSeq(Tail(seq))

\* a row whose last entry counts the positive labels instead of the marks
TopkRowCountsPositives(eval_pred, data_label, eval_topk_idx, label_topk_idx) ==
    LET pos_matrix == PosMatrix(eval_pred, label_topk_idx)
    IN  [i \in 1..Len(eval_topk_idx) |-> pos_matrix[eval_topk_idx[i]]]
            \o <<Cardinality({p \in 1..Len(data_label) : data_label[p] > 0})>>

\* a row that marks only the positions of the label top-k whose label is
\* positive
TopkRowPositiveLabels(eval_pred, data_label, eval_topk_idx, label_topk_idx) ==
    LET pos_matrix == [p \in 1..Len(eval_pred) |->
                          IF p \in Range(label_topk_idx) /\ data_label[p] > 0
                          THEN 1 ELSE 0]
    IN  [i \in 1..Len(eval_topk_idx) |-> pos_matrix[eval_topk_idx[i]]]
            \o <<SumSeq(pos_matrix)>>

\* lines 69-73: pos_len_list = pos_matrix.sum(); pos_idx = gather(pos_matrix,
\* eval_topk_idx); result = cat((pos_idx, pos_len_list))
TopkRow(eval_pred, data_label, eval_topk_idx, label_topk_idx) ==
    LET pos_matrix   == PosMatrix(eval_pred, label_topk_idx)
        pos_len_list == <<SumSeq(pos_matrix)>>
        pos_idx      == [i \in 1..Len(eval_topk_idx) |-> pos_matrix[eval_topk_idx[i]]]
    IN  pos_idx \o pos_len_list

\* the 'rec.topk' part of eval_collect, lines 65-75
CollectTopk(ds, eval_pred, data_label, eval_topk_idx, label_topk_idx) ==
    LET k == MaxOf(topk)
    IN  IF k > Len(eval_pred) \/ k > Len(data_label)
        THEN [data_struct |-> ds, err |-> "RuntimeError", row |-> <<>>]
        ELSE IF \E i \in 1..k : label_topk_idx[i] > Len(eval_pred)
        THEN [data_struct |-> ds, err |-> "IndexError", row |-> <<>>]
        ELSE LET result == TopkRow(eval_pred, data_label, eval_topk_idx, label_topk_idx)
             IN  [data_struct |-> update_tensor(ds, "rec.topk", <<result>>),
                  err |-> "none", row |-> result]

\* eval_collect that stores the labels whether they are needed or not
eval_collectUngated(ds, reg, eval_pred, data_label, eval_topk_idx, label_topk_idx) ==
    LET ds1 == IF Need(reg, "rec.score")
               THEN update_tensor(ds, "rec.score", eval_pred) ELSE ds
        ds2 == update_tensor(ds1, "data.label", data_label)
    IN  IF Need(reg, "rec.topk")
        THEN CollectTopk(ds2, eval_pred, data_label, eval_topk_idx, label_topk_idx)
        ELSE [data_struct |-> ds2, err |-> "none", row |-> <<>>]

\* MetaCollector.eval_collect
eval_collectResult(ds, reg, eval_pred, data_label, eval_topk_idx, label_topk_idx) ==
    LET ds1 == IF Need(reg, "rec.score")
               THEN update_tensor(ds, "rec.score", eval_pred) ELSE ds
        ds2 == IF Need(reg, "data.label")
               THEN update_tensor(ds1, "data.label", data_label) ELSE ds1
    IN  IF Need(reg, "rec.topk")
        THEN CollectTopk(ds2, eval_pred, data_label, eval_topk_idx, label_topk_idx)
        ELSE [data_struct |-> ds2, err |-> "none", row |-> <<>>]

\* DataStruct.set(name, value): the value replaces what was stored
data_struct_set(ds, name, value) ==
    [n \in (DOMAIN ds) \cup {name} |-> IF n = name THEN value ELSE ds[n]]

\* MetaCollector.data_collect
data_collectResult(ds, reg, userList) ==
    IF Need(reg, "data.num_users")
    THEN data_struct_set(ds, "data.num_users", Len(userList))
    ELSE ds

\* predictedScores = [0.9, 0.1, 0.5, 0.3], the documented example (in tenths)
ExamplePred == <<9, 1, 5, 3>>

\* trueLabels = [1, 0, 1, 0], the documented example
ExampleLabel == <<1, 0, 1, 0>>

\* the score tensors of at most n query items, and the documented example
Preds(n) == UNION {[1..m -> ScoreValues] : m \in 1..n} \cup {ExamplePred}

\* the label tensors handed in with n scores: as many, one less or one more
Labels(n) == UNION {[1..m -> LabelValues] : m \in {n - 1, n, n + 1} \ {0}}

\* the index tensors torch.topk returns, none when it raises
TopkOrNone(t, k) == IF k > Len(t) THEN {<<>>} ELSE TopkIndices(t, k)

\* the tasks evaluated before the call that is observed: none, or one
EarlierTasks ==
    {<<>>, <<[eval_pred |-> <<9, 1>>, data_label |-> <<1, 0>>]>>}

\* data_struct after the earlier tasks were collected
RECURSIVE Collected(_, _)
Collected(reg, tasks) ==
    IF tasks = <<>> THEN <<>>
    ELSE LET t == tasks[Len(tasks)]
             e == CHOOSE idx \in TopkOrNone(t.eval_pred, MaxOf(topk)) : TRUE
             l == CHOOSE idx \in TopkOrNone(t.data_label, MaxOf(topk)) : TRUE
         IN  eval_collectResult(Collected(reg, SubSeq(tasks, 1, Len(tasks) - 1)),
                                reg, t.eval_pred, t.data_label, e, l).data_struct

\* MetaCollector.__init__, with the kinds the configured metrics register,
\* followed by the evaluation of the earlier tasks
InitCollector(reg, tasks) ==
    /\ register = reg
    /\ data_struct = Collected(reg, tasks)
    /\ cLast = [op |-> "init", eval_pred |-> <<>>, data_label |-> <<>>,
                eval_topk_idx |-> <<>>, label_topk_idx |-> <<>>,
                userList |-> <<>>, err |-> "none", row |-> <<>>]

\* collector.eval_collect(eval_pred, data_label), for the query set of one task
eval_collect ==
    /\ cLast.op = "init"
    /\ \E eval_pred \in Preds(MaxItems) :
       \E data_label \in Labels(Len(eval_pred)) :
       \E eval_topk_idx \in TopkOrNone(eval_pred, MaxOf(topk)) :
       \E label_topk_idx \in TopkOrNone(data_label, MaxOf(topk)) :
          LET r == eval_collectResult(data_struct, register, eval_pred, data_label,
                                      eval_topk_idx, label_topk_idx)
              ran == Need(register, "rec.topk")
          IN  /\ data_struct' = r.data_struct
              /\ cLast' = [op |-> "eval_collect", eval_pred |-> eval_pred,
                           data_label |-> data_label,
                           eval_topk_idx |-> IF ran THEN eval_topk_idx ELSE <<>>,
                           label_topk_idx |-> IF ran THEN label_topk_idx ELSE <<>>,
                           userList |-> <<>>,
                           err |-> r.err, row |-> r.row]
    /\ UNCHANGED register
    /\ UNCHANGED notCollectorVars

\* collector.data_collect(train_data)
data_collect ==
    /\ cLast.op = "init"
    /\ \E userList \in UserLists :
          /\ data_struct' = data_collectResult(data_struct, register, userList)
          /\ cLast' = [op |-> "data_collect", eval_pred |-> <<>>,
                       data_label |-> <<>>, eval_topk_idx |-> <<>>,
                       label_topk_idx |-> <<>>, userList |-> userList,
                       err |-> "none", row |-> <<>>]
    /\ UNCHANGED register
    /\ UNCHANGED notCollectorVars

NextCollector == eval_collect \/ data_collect

(***************************************************************************)
(* EmbeddingTable.  A column of a TOKEN field holds one index per record,  *)
(* within [0, dataset.num(field)); a column of a FLOAT field holds one     *)
(* feature vector per record.                                              *)
(***************************************************************************)
\* FeatureType: the types the table supports
FeatureType == {"TOKEN", "FLOAT"}

\* dataset.fields(source=[FeatureSource.USER, FeatureSource.ITEM])
Fields == <<"user_id", "age", "item_id">>

FieldSet == Range(Fields)

\* EmbeddingTable.__init__: embeddingSize
embeddingSize == 2

\* dataset.num(field): the number of tokens of a field
num(field) == IF field = "user_id" THEN 3 ELSE 2

\* the values of a FLOAT feature
FloatValues == {1, 2}

\* nn.Embedding(num, embeddingSize): the matrix a field starts with, one row
\* per token, no two entries of the table alike
NewEmbedding(field) ==
    LET f == CHOOSE i \in 1..Len(Fields) : Fields[i] = field
    IN  [x \in 1..num(field) |->
            [j \in 1..embeddingSize |-> 100 * f + 10 * (x - 1) + j]]

\* EmbeddingTable.fieldType
fieldType(ds, field) == ds.field2type[field]

\* initialize that gives every field a matrix, whatever its type
initializeAllFields(ds) ==
    [embeddingFields |-> ds.fields,
     embeddingDict |-> [field \in Range(ds.fields) |-> NewEmbedding(field)]]

\* EmbeddingTable.initialize: one matrix per TOKEN field
initializeResult(ds) ==
    [embeddingFields |-> ds.fields,
     embeddingDict |->
        [field \in {g \in Range(ds.fields) : fieldType(ds, g) = "TOKEN"} |->
            NewEmbedding(field)]]

\* lookup that returns the row of the token before the one asked for
embeddingLookupShifted(ds, ed, field, batchX) ==
    IF fieldType(ds, field) = "TOKEN"
    THEN [b \in 1..Len(batchX) |->
             ed[field][IF batchX[b] = 0 THEN num(field) ELSE batchX[b]]]
    ELSE batchX

\* EmbeddingTable.embeddingSingleField (row x of the matrix is token x - 1)
embeddingSingleFieldResult(ds, ed, field, batchX) ==
    IF fieldType(ds, field) = "TOKEN"
    THEN [b \in 1..Len(batchX) |-> ed[field][batchX[b] + 1]]
    ELSE batchX

\* `field in interaction`
HasField(interaction, field) == field \in DOMAIN interaction

\* torch.cat(batchX, dim=1): for each record, the features of the list's
\* tensors one after the other
RECURSIVE CatDim1(_, _)
CatDim1(batchX, b) ==
    IF batchX = <<>> THEN <<>>
    ELSE batchX[1][b] \o CatDim1(Tail(batchX), b)

\* the loop of embeddingAllFields that leaves out the fields the interaction lacks
RECURSIVE EmbedPresentFrom(_, _, _, _, _, _)
EmbedPresentFrom(k, ds, ed, fields, interaction, batchX) ==
    IF k > Len(fields) THEN [err |-> "none", batchX |-> batchX]
    ELSE IF ~HasField(interaction, fields[k])
    THEN EmbedPresentFrom(k + 1, ds, ed, fields, interaction, batchX)
    ELSE EmbedPresentFrom(k + 1, ds, ed, fields, interaction,
            Append(batchX,
                   embeddingSingleFieldResult(ds, ed, fields[k], interaction[fields[k]])))

EmbedFieldsSkipping(ds, ed, fields, interaction) ==
    EmbedPresentFrom(1, ds, ed, fields, interaction, <<>>)

\* the loop of embeddingAllFields, lines 268-270, from field k on;
\* interaction[field] raises KeyError for a field the interaction lacks
RECURSIVE EmbedFrom(_, _, _, _, _, _)
EmbedFrom(k, ds, ed, fields, interaction, batchX) ==
    IF k > Len(fields) THEN [err |-> "none", batchX |-> batchX]
    ELSE IF ~HasField(interaction, fields[k])
    THEN [err |-> "KeyError", batchX |-> batchX]
    ELSE EmbedFrom(k + 1, ds, ed, fields, interaction,
            Append(batchX,
                   embeddingSingleFieldResult(ds, ed, fields[k], interaction[fields[k]])))

\* lines 267-270: batchX, the list of the embedded fields
EmbedFields(ds, ed, fields, interaction) ==
    EmbedFrom(1, ds, ed, fields, interaction, <<>>)

\* the number of records of an interaction
BatchSize(interaction) ==
    IF DOMAIN interaction = {} THEN 0
    ELSE Len(interaction[CHOOSE f \in DOMAIN interaction : TRUE])

\* EmbeddingTable.embeddingAllFields
embeddingAllFieldsResult(ds, ed, fields, interaction) ==
    LET r == EmbedFields(ds, ed, fields, interaction)
    IN  IF r.err # "none" THEN [err |-> r.err, out |-> <<>>]
        ELSE [err |-> "none",
              out |-> [b \in 1..BatchSize(interaction) |-> CatDim1(r.batchX, b)]]

\* the columns a field can have in a batch of B records
Columns(ds, field, B) ==
    IF fieldType(ds, field) = "TOKEN"
    THEN [1..B -> 0..(num(field) - 1)]
    ELSE [1..B -> {<<v>> : v \in FloatValues}]

\* the interactions of B records over some of the given fields, one column each
RECURSIVE InteractionsOver(_, _, _)
InteractionsOver(ds, fields, B) ==
    IF fields = <<>> THEN {<<>>}
    ELSE LET rest == InteractionsOver(ds, Tail(fields), B)
             f    == Head(fields)
         IN  rest \cup
             {[g \in (DOMAIN i) \cup {f} |-> IF g = f THEN c ELSE i[g]] :
                 <<i, c>> \in rest \X Columns(ds, f, B)}

\* the interactions of B records: any subset of the fields
Interactions(ds, B) == InteractionsOver(ds, ds.fields, B)

NoCall == [op |-> "init", interaction |-> <<>>, weights |-> <<>>,
           err |-> "none", out |-> <<>>]

\* EmbeddingTable.__init__ on a dataset whose fields have the types field2type
InitEmbedding(field2type) ==
    /\ dataset = [fields |-> Fields, field2type |-> field2type]
    /\ embeddingFields = initializeResult(dataset).embeddingFields
    /\ embeddingDict = initializeResult(dataset).embeddingDict
    /\ eLast = NoCall
    /\ ePrev = NoCall
    /\ nupdates = 0

\* table.embeddingAllFields(interaction)
embeddingAllFields ==
    /\ eLast.op = "init"
    /\ \E B \in 1..MaxBatch :
       \E interaction \in Interactions(dataset, B) :
          LET r == embeddingAllFieldsResult(dataset, embeddingDict,
                                            embeddingFields, interaction)
          IN  eLast' = [op |-> "embeddingAllFields", interaction |-> interaction,
                        weights |-> embeddingDict, err |-> r.err, out |-> r.out]
    /\ ePrev' = eLast
    /\ UNCHANGED <<dataset, embeddingFields, embeddingDict, nupdates>>
    /\ UNCHANGED notEmbeddingVars

\* table.embeddingAllFields(interaction) once more, on the same interaction
embeddingAllFieldsAgain ==
    /\ eLast.op = "embeddingAllFields"
    /\ ePrev.op = "init"
    /\ LET r == embeddingAllFieldsResult(dataset, embeddingDict,
                                         embeddingFields, eLast.interaction)
       IN  eLast' = [op |-> "embeddingAllFields", interaction |-> eLast.interaction,
                     weights |-> embeddingDict, err |-> r.err, out |-> r.out]
    /\ ePrev' = eLast
    /\ UNCHANGED <<dataset, embeddingFields, embeddingDict, nupdates>>
    /\ UNCHANGED notEmbeddingVars

\* table.embeddingSingleField(field, batchX), as the first call or after a
\* call of embeddingAllFields
embeddingSingleField ==
    /\ eLast.op = "init" \/ (eLast.op = "embeddingAllFields" /\ ePrev.op = "init")
    /\ \E field \in FieldSet :
       \E B \in 1..MaxBatch :
       \E batchX \in Columns(dataset, field, B) :
          eLast' = [op |-> "embeddingSingleField",
                    interaction |-> [f \in {field} |-> batchX],
                    weights |-> embeddingDict, err |-> "none",
                    out |-> embeddingSingleFieldResult(dataset, embeddingDict,
                                                       field, batchX)]
    /\ ePrev' = eLast
    /\ UNCHANGED <<dataset, embeddingFields, embeddingDict, nupdates>>
    /\ UNCHANGED notEmbeddingVars

\* the outer optimizer changes the embedding matrices
OptimizerStep ==
    /\ nupdates < MaxUpdates
    /\ embeddingDict' =
          [f \in DOMAIN embeddingDict |->
              [x \in DOMAIN embeddingDict[f] |->
                  [j \in DOMAIN embeddingDict[f][x] |-> embeddingDict[f][x][j] + 1]]]
    /\ nupdates' = nupdates + 1
    /\ UNCHANGED <<dataset, embeddingFields, eLast, ePrev>>
    /\ UNCHANGED notEmbeddingVars

NextEmbedding ==
    embeddingAllFields \/ embeddingAllFieldsAgain \/ embeddingSingleField
        \/ OptimizerStep

(***************************************************************************)
(* Task.                                                                   *)
(***************************************************************************)
\* taskInfo (dict): with a 'task_id' or without one
TaskInfos == {<<>>, [task_id |-> 1], [task_id |-> 2]}

\* spt, qrt (Interaction): the records of a set, none to MaxRecords of them,
\* each record given by its item
RecordSets == {[i \in 1..n |-> i] : n \in 0..MaxRecords}

\* Task.__init__: the three arguments are stored as they are
TaskResult(taskInfo, spt, qrt) ==
    [err |-> "none",
     self |-> [taskInfo |-> taskInfo, spt |-> spt, qrt |-> qrt]]

InitTask ==
    /\ taskObjs = <<>>
    /\ tLast = [op |-> "init", taskInfo |-> <<>>, spt |-> <<>>, qrt |-> <<>>,
                err |-> "none"]

\* Task(taskInfo, spt, qrt)
Task ==
    /\ Len(taskObjs) < MaxTasks
    /\ \E taskInfo \in TaskInfos : \E spt \in RecordSets : \E qrt \in RecordSets :
          LET r == TaskResult(taskInfo, spt, qrt)
          IN  /\ taskObjs' = IF r.err = "none" THEN Append(taskObjs, r.self)
                                                ELSE taskObjs
              /\ tLast' = [op |-> "Task", taskInfo |-> taskInfo, spt |-> spt,
                           qrt |-> qrt, err |-> r.err]
    /\ UNCHANGED notTaskVars

NextTask == Task

(***************************************************************************)
(* GradCollectors of parallel workers.  The tuples of a meta-batch are     *)
(* shared out among workers; each worker accumulates its share into a      *)
(* private GradCollector and drains it; the drained mappings are           *)
(* accumulated into a shared GradCollector, which is averaged once.  The   *)
(* calls are those of GradCollector; all collectors live in one process,   *)
(* so a tensor object is the same object for all of them.                  *)
(***************************************************************************)
\* the gradient tensors of the tasks of a meta-batch
WorkerTensors == <<
    <<Elem(1)>>, <<Elem(2)>>,
    <<Elem(3)>>, <<Elem(5)>>,
    <<Elem(7)>>, <<Elem(11)>> >>

\* the gradient tuples the tasks produced: one tensor per parameter name
WorkerTuples == {<<1, 2>>, <<3, 4>>, <<5, 6>>}

Workers == {1, 2}

\* the meta-batches: 2 to MaxMetaBatch tuples, a tuple possibly more than once
MetaBatches == UNION {[1..n -> WorkerTuples] : n \in 2..MaxMetaBatch}

\* the ways to share n tuples out, every worker getting one at least
Partitions(n) == {o \in [1..n -> Workers] : \A w \in Workers : \E i \in 1..n : o[i] = w}

\* the positions of the batch that worker w accumulates, in their order
RECURSIVE ShareFrom(_, _, _)
ShareFrom(i, owner, w) ==
    IF i > Len(owner) THEN <<>>
    ELSE IF owner[i] = w THEN <<i>> \o ShareFrom(i + 1, owner, w)
    ELSE ShareFrom(i + 1, owner, w)

Share(owner, w) == ShareFrom(1, owner, w)

\* tuple(grad.values()) of a drained mapping
ValuesOf(gd) == [i \in 1..Len(gd) |-> gd[i].ref]

NotDumped == "NotDumped"

\* one collector accumulating the tuples in their order, from tuple k on
RECURSIVE SequentialFrom(_, _, _, _)
SequentialFrom(k, gd, hp, tuples) ==
    IF k > Len(tuples) THEN [gradDict |-> gd, heap |-> hp]
    ELSE LET r == addGradResult(gd, hp, tuples[k])
         IN  SequentialFrom(k + 1, r.gradDict, r.heap, tuples)

\* the values one collector holds after accumulating all tuples of the
\* batch and averageGrad(n)
SequentialResult(tuples) ==
    LET hp0 == [r \in 1..Len(WorkerTensors) |-> WorkerTensors[r]]
        acc == SequentialFrom(1, <<>>, hp0, tuples)
        avg == averageGradResult(acc.gradDict, acc.heap, Len(tuples))
    IN  [i \in 1..Len(avg.gradDict) |-> avg.heap[avg.gradDict[i].ref]]

InitMerge ==
    /\ \E tuples \in MetaBatches : \E owner \in Partitions(Len(tuples)) :
          batch = [tuples |-> tuples, owner |-> owner]
    /\ wheap = [r \in 1..Len(WorkerTensors) |-> WorkerTensors[r]]
    /\ worker = [w \in Workers |-> [gradDict |-> <<>>, done |-> 0, dump |-> NotDumped]]
    /\ shared = [gradDict |-> <<>>, merged |-> {}, averaged |-> FALSE]

\* worker w: collector.addGrad(gradTuple) for the next tuple of its share
workerAddGrad ==
    /\ \E w \in Workers :
          LET share == Share(batch.owner, w)
          IN  /\ worker[w].done < Len(share)
              /\ LET r == addGradResult(worker[w].gradDict, wheap,
                                        batch.tuples[share[worker[w].done + 1]])
                 IN  /\ wheap' = r.heap
                     /\ worker' = [worker EXCEPT ![w].gradDict = r.gradDict,
                                                 ![w].done = @ + 1]
    /\ UNCHANGED <<batch, shared>>
    /\ UNCHANGED notMergeVars

\* worker w: grad = collector.dumpGrad(), once its share is accumulated
workerDumpGrad ==
    /\ \E w \in Workers :
          /\ worker[w].done = Len(Share(batch.owner, w))
          /\ worker[w].dump = NotDumped
          /\ LET r == dumpGradResult(worker[w].gradDict)
             IN  worker' = [worker EXCEPT ![w].gradDict = r.gradDict,
                                         ![w].dump = r.ret]
    /\ UNCHANGED <<batch, wheap, shared>>
    /\ UNCHANGED notMergeVars

\* the shared collector: addGrad(tuple(grad.values())) for the drained
\* mapping of a worker, the workers in any order
mergeGrad ==
    /\ \E w \in Workers \ shared.merged :
          /\ worker[w].dump # NotDumped
          /\ LET r == addGradResult(shared.gradDict, wheap, ValuesOf(worker[w].dump))
             IN  /\ wheap' = r.heap
                 /\ shared' = [shared EXCEPT !.gradDict = r.gradDict,
                                             !.merged = @ \cup {w}]
    /\ UNCHANGED <<batch, worker>>
    /\ UNCHANGED notMergeVars

\* the shared collector: averageGrad(n), once, after all mappings are merged
sharedAverageGrad ==
    /\ shared.merged = Workers
    /\ ~shared.averaged
    /\ LET r == averageGradResult(shared.gradDict, wheap, Len(batch.tuples))
       IN  /\ wheap' = r.heap
           /\ shared' = [shared EXCEPT !.gradDict = r.gradDict, !.averaged = TRUE]
    /\ UNCHANGED <<batch, worker>>
    /\ UNCHANGED notMergeVars

NextMerge == workerAddGrad \/ workerDumpGrad \/ mergeGrad \/ sharedAverageGrad

\* the workers before a batch is shared out
NoMerge ==
    /\ batch = [tuples |-> <<>>, owner |-> <<>>]
    /\ wheap = [r \in 1..Len(WorkerTensors) |-> WorkerTensors[r]]
    /\ worker = [w \in Workers |-> [gradDict |-> <<>>, done |-> 0, dump |-> NotDumped]]
    /\ shared = [gradDict |-> <<>>, merged |-> {}, averaged |-> FALSE]

(***************************************************************************)
(* Specifications: one per component, each from the state after            *)
(* construction, the other components left alone.                          *)
(***************************************************************************)
\* the dataset whose fields are all tokens
AllTokens == [f \in FieldSet |-> "TOKEN"]

Init ==
    /\ InitGrad /\ InitDataset /\ InitCollector(EvalKinds, <<>>)
    /\ InitEmbedding(AllTokens) /\ InitTask /\ NoMerge

SpecGrad == Init /\ [][NextGrad]_vars

SpecDataset == Init /\ [][NextDataset]_vars

\* the collector of any configuration of metrics
InitAnyCollector ==
    /\ InitGrad
    /\ InitDataset
    /\ \E reg \in SUBSET (EvalKinds \cup DataKinds) :
       \E tasks \in EarlierTasks : InitCollector(reg, tasks)
    /\ InitEmbedding(AllTokens)
    /\ InitTask
    /\ NoMerge

SpecCollector == InitAnyCollector /\ [][NextCollector]_vars

\* the embedding table of any dataset
InitAnyEmbedding ==
    /\ InitGrad
    /\ InitDataset
    /\ InitCollector(EvalKinds, <<>>)
    /\ \E field2type \in [FieldSet -> FeatureType] : InitEmbedding(field2type)
    /\ InitTask
    /\ NoMerge

SpecEmbedding == InitAnyEmbedding /\ [][NextEmbedding]_vars

SpecTask == Init /\ [][NextTask]_vars

\* the workers of any meta-batch, shared out in any way
InitAnyMerge ==
    /\ InitGrad
    /\ InitDataset
    /\ InitCollector(EvalKinds, <<>>)
    /\ InitEmbedding(AllTokens)
    /\ InitTask
    /\ InitMerge

SpecMerge == InitAnyMerge /\ [][NextMerge]_vars

(***************************************************************************)
(* create_meta_dataset: properties.                                        *)
(***************************************************************************)
\* C6: create_meta_dataset returns the persisted artifact if and only if the
\* file exists and every argument of dataset_arguments, 'seed' and
\* 'repeatable' has in the current config the value stored in the artifact's
\* config; otherwise it returns a dataset newly built from the current
\* config, saved only when save_dataset is set; a stale artifact is never
\* returned.
C6_ReuseIffArgsEqual ==
    [][dLast'.op = "create_meta_dataset" =>
          LET file   == DatasetFile(config)
              exists == file \in DOMAIN files
              match  == exists /\ \A a \in ConfigKeys :
                                     config[a] = files[file].config[a]
              ds     == dLast'.dataset
          IN  /\ (match => ds = files[file] /\ files' = files)
              /\ (~match =>
                    /\ \A f \in DOMAIN files : ds.id # files[f].id
                    /\ ds.config = config
                    /\ (files' # files => config["save_dataset"])
                    /\ (config["save_dataset"] =>
                           default_file \in DOMAIN files' /\ files'[default_file] = ds))
              /\ \A a \in ConfigKeys : ds.config[a] = config[a]
      ]_vars

\* C6 witness: a saved artifact whose seed differs from the current one
\* exists, and the call returned a newly built dataset instead of it.
C6_Witness ==
    /\ dLast.op = "create_meta_dataset"
    /\ DatasetFile(config) \in DOMAIN files
    /\ files[DatasetFile(config)].config["seed"] # config["seed"]
    /\ \A a \in ConfigKeys \ {"seed"} :
          files[DatasetFile(config)].config[a] = config[a]
    /\ dLast.dataset.id # files[DatasetFile(config)].id
    /\ dLast.dataset.config = config

(***************************************************************************)
(* MetaCollector: properties.                                              *)
(***************************************************************************)
\* the rows collected for 'rec.topk'
TopkRows(ds) == IF "rec.topk" \in DOMAIN ds THEN ds["rec.topk"] ELSE <<>>

\* position p holds an i-th highest value of t
IsIthHighest(t, p, i) ==
    /\ Cardinality({q \in 1..Len(t) : t[q] > t[p]}) < i
    /\ Cardinality({q \in 1..Len(t) : t[q] >= t[p]}) >= i

\* S is a set of k positions of t holding k highest values
IsTopkSet(t, S, k) ==
    /\ S \subseteq 1..Len(t)
    /\ Cardinality(S) = k
    /\ \A p \in S : \A q \in (1..Len(t)) \ S : t[p] >= t[q]

\* C7: with 'rec.topk' registered and k = max(topk), for 1-D scores and labels
\* of equal length n >= k, eval_collect appends exactly one row of k+1
\* entries: entry i <= k is 1 if the position of the i-th highest score is in
\* the label top-k index set and 0 otherwise, the last entry is the number of
\* positions marked relevant.  For scores [0.9, 0.1, 0.5, 0.3], labels
\* [1, 0, 1, 0] and k = 2 the row is [1, 1, 2].
C7_TopkHitRow ==
    [][(/\ cLast'.op = "eval_collect"
        /\ Need(register, "rec.topk")
        /\ Len(cLast'.eval_pred) = Len(cLast'.data_label)
        /\ Len(cLast'.eval_pred) >= MaxOf(topk)) =>
           LET k        == MaxOf(topk)
               pred     == cLast'.eval_pred
               label    == cLast'.data_label
               e        == cLast'.eval_topk_idx
               relevant == Range(cLast'.label_topk_idx)
               row      == [i \in 1..(k + 1) |->
                               IF i > k THEN Cardinality(relevant)
                               ELSE IF e[i] \in relevant THEN 1 ELSE 0]
           IN  /\ cLast'.err = "none"
               /\ \A i \in 1..k : IsIthHighest(pred, e[i], i)
               /\ \A i, j \in 1..k : i # j => e[i] # e[j]
               /\ IsTopkSet(label, relevant, k)
               /\ cLast'.row = row
               /\ TopkRows(data_struct') = Append(TopkRows(data_struct), row)
               /\ (pred = ExamplePred /\ label = ExampleLabel =>
                      cLast'.row = <<1, 1, 2>>)
      ]_vars

\* C7 witness: the documented example was collected after an earlier task,
\* and its row [1, 1, 2] is the second row of 'rec.topk'.
C7_Witness ==
    /\ cLast.op = "eval_collect"
    /\ Need(register, "rec.topk")
    /\ cLast.eval_pred = ExamplePred
    /\ cLast.data_label = ExampleLabel
    /\ cLast.row = <<1, 1, 2>>
    /\ Len(TopkRows(data_struct)) = 2
    /\ TopkRows(data_struct)[2] = <<1, 1, 2>>

\* C8: eval_collect with scores and labels of different lengths fails and
\* records no evidence of any kind.
C8_LengthMismatchFails ==
    [][(/\ cLast'.op = "eval_collect"
        /\ Len(cLast'.eval_pred) # Len(cLast'.data_label)) =>
           (cLast'.err # "none" /\ data_struct' = data_struct)
      ]_vars

\* the number of positive labels
Positives(data_label) ==
    Cardinality({p \in 1..Len(data_label) : data_label[p] > 0})

\* C13: for a task of n >= k query items, the last entry of the row that
\* eval_collect records is the number of positions of the label top-k index
\* set, that is k, however many labels are positive; with fewer than k
\* positive labels, positions whose label is zero are marked relevant, and
\* such a position among the top-k scores is a hit.
C13_RelevantCountIsK ==
    [][(/\ cLast'.op = "eval_collect"
        /\ Need(register, "rec.topk")
        /\ Len(cLast'.eval_pred) = Len(cLast'.data_label)
        /\ Len(cLast'.eval_pred) >= MaxOf(topk)) =>
           LET k        == MaxOf(topk)
               label    == cLast'.data_label
               e        == cLast'.eval_topk_idx
               relevant == Range(cLast'.label_topk_idx)
           IN  /\ cLast'.err = "none"
               /\ Cardinality(relevant) = k
               /\ cLast'.row[k + 1] = k
               /\ (Positives(label) < k =>
                      \E p \in relevant : label[p] = 0)
               /\ \A i \in 1..k :
                      (e[i] \in relevant /\ label[e[i]] = 0) => cLast'.row[i] = 1
      ]_vars

\* C13 witness: a task with one positive label among three and k = 2 was
\* collected; its count is 2 and a zero-labelled position is one of its hits.
C13_Witness ==
    /\ cLast.op = "eval_collect"
    /\ Need(register, "rec.topk")
    /\ Len(cLast.eval_pred) = 3 /\ Len(cLast.data_label) = 3
    /\ Positives(cLast.data_label) = 1
    /\ cLast.err = "none"
    /\ cLast.row[MaxOf(topk) + 1] = 2
    /\ \E i \in 1..MaxOf(topk) :
          cLast.data_label[cLast.eval_topk_idx[i]] = 0 /\ cLast.row[i] = 1

\* what is stored for a kind in ds2 is what is stored for it in ds1, nothing
\* when nothing is
SameStored(ds1, ds2, kind) ==
    /\ (kind \in DOMAIN ds2) = (kind \in DOMAIN ds1)
    /\ kind \in DOMAIN ds1 => ds2[kind] = ds1[kind]

\* C14: a call of eval_collect or data_collect leaves what is stored for a
\* kind that is not registered as it was and raises nothing on its account;
\* only registered kinds are written; and what is written for a registered
\* kind is the same whichever other kinds are registered: the scores and the
\* labels are concatenated to what was collected, the row of the task is
\* appended, the number of users replaces the stored one.
C14_EvidenceGating ==
    [][cLast'.op \in {"eval_collect", "data_collect"} =>
        LET tested == IF cLast'.op = "eval_collect" THEN EvalKinds ELSE DataKinds
        IN  /\ \A kind \in EvalKinds \cup DataKinds :
                  (~Need(register, kind) \/ kind \notin tested) =>
                      SameStored(data_struct, data_struct', kind)
            /\ DOMAIN data_struct' \subseteq (DOMAIN data_struct) \cup register
            /\ (register \cap tested = {} =>
                   cLast'.err = "none" /\ data_struct' = data_struct)
            /\ (cLast'.err # "none" => Need(register, "rec.topk"))
            /\ (cLast'.op = "eval_collect" /\ Need(register, "rec.score") =>
                   data_struct'["rec.score"] =
                      (IF "rec.score" \in DOMAIN data_struct
                       THEN data_struct["rec.score"] ELSE <<>>) \o cLast'.eval_pred)
            /\ (cLast'.op = "eval_collect" /\ Need(register, "data.label") =>
                   data_struct'["data.label"] =
                      (IF "data.label" \in DOMAIN data_struct
                       THEN data_struct["data.label"] ELSE <<>>) \o cLast'.data_label)
            /\ (cLast'.op = "eval_collect" /\ Need(register, "rec.topk") =>
                   TopkRows(data_struct') =
                      IF cLast'.err = "none"
                      THEN Append(TopkRows(data_struct), cLast'.row)
                      ELSE TopkRows(data_struct))
            /\ (cLast'.op = "data_collect" /\ Need(register, "data.num_users") =>
                   data_struct'["data.num_users"] = Len(cLast'.userList))
      ]_vars

\* C14 witness: with only the scores and the number of users registered, the
\* evaluation of a task after an earlier one added its scores and stored
\* nothing else.
C14_Witness ==
    /\ cLast.op = "eval_collect"
    /\ register = {"rec.score", "data.num_users"}
    /\ cLast.err = "none"
    /\ Len(cLast.eval_pred) = 3
    /\ DOMAIN data_struct = {"rec.score"}
    /\ data_struct["rec.score"] = <<9, 1>> \o cLast.eval_pred

(***************************************************************************)
(* EmbeddingTable: properties.                                             *)
(***************************************************************************)
\* the number of features field number i contributes for one record
WidthOf(i) ==
    IF dataset.field2type[embeddingFields[i]] = "TOKEN" THEN embeddingSize ELSE 1

\* the number of features the fields before field number i contribute
RECURSIVE OffsetOf(_)
OffsetOf(i) == IF i = 1 THEN 0 ELSE OffsetOf(i - 1) + WidthOf(i - 1)

\* feature j of field number i for record b of the call `call`: the entry of
\* the matrix row of the index for a TOKEN field, the value itself otherwise
FeatureOf(call, i, b, j) ==
    LET f == embeddingFields[i]
    IN  IF dataset.field2type[f] = "TOKEN"
        THEN call.weights[f][call.interaction[f][b] + 1][j]
        ELSE call.interaction[f][b][j]

HasAllFields(call) ==
    \A i \in 1..Len(embeddingFields) : embeddingFields[i] \in DOMAIN call.interaction

\* C9: for a record batch that contains all fields, embeddingAllFields returns
\* for each record the concatenation, in the order of the field list fixed at
\* construction, of what embeddingSingleField gives for each field: the matrix
\* row of the index for a TOKEN field, the values unchanged for a FLOAT field;
\* and two calls with the same batch and unchanged matrices return the same.
C9_ConcatInFieldOrder ==
    /\ embeddingFields = Fields
    /\ (eLast.op = "embeddingAllFields" /\ HasAllFields(eLast)) =>
          LET n == Len(embeddingFields)
              B == BatchSize(eLast.interaction)
          IN  /\ eLast.err = "none"
              /\ Len(eLast.out) = B
              /\ \A b \in 1..B :
                    /\ Len(eLast.out[b]) = OffsetOf(n) + WidthOf(n)
                    /\ \A i \in 1..n : \A j \in 1..WidthOf(i) :
                          eLast.out[b][OffsetOf(i) + j] = FeatureOf(eLast, i, b, j)
              /\ (/\ ePrev.op = "embeddingAllFields"
                  /\ ePrev.interaction = eLast.interaction
                  /\ ePrev.weights = eLast.weights) => eLast.out = ePrev.out

\* C9 witness: a batch of two records with all fields, a TOKEN and a FLOAT
\* field among them, was embedded twice with the matrices unchanged.
C9_Witness ==
    /\ eLast.op = "embeddingAllFields" /\ HasAllFields(eLast)
    /\ ePrev.op = "embeddingAllFields" /\ ePrev.weights = eLast.weights
    /\ BatchSize(eLast.interaction) = 2
    /\ dataset.field2type["user_id"] = "TOKEN"
    /\ dataset.field2type["age"] = "FLOAT"
    /\ eLast.err = "none"
    /\ eLast.out = ePrev.out
    /\ Len(eLast.out[1]) = OffsetOf(Len(embeddingFields)) + WidthOf(Len(embeddingFields))

\* C10: for a record that lacks a field of the field list (TOKEN or FLOAT, at
\* any position), embeddingAllFields ends in the missing-field error and
\* returns no vector.
C10_MissingFieldFails ==
    (eLast.op = "embeddingAllFields" /\ ~HasAllFields(eLast)) =>
        (eLast.err = "KeyError" /\ eLast.out = <<>>)

\* C10 witness: the last field, a FLOAT one, is missing while the fields
\* before it are there, and the call ended in the missing-field error.
C10_Witness ==
    /\ eLast.op = "embeddingAllFields"
    /\ dataset.field2type["item_id"] = "FLOAT"
    /\ DOMAIN eLast.interaction = {"user_id", "age"}
    /\ eLast.err = "KeyError"
    /\ eLast.out = <<>>

\* the TOKEN fields among the user and item fields of the dataset
TokenFields == {f \in Range(dataset.fields) : dataset.field2type[f] = "TOKEN"}

\* C15: after construction the fields that own an embedding matrix are
\* exactly the TOKEN fields among the user and item fields of the dataset,
\* each matrix has num(field) rows of embeddingSize entries, a FLOAT field
\* owns none, and no call of embeddingSingleField or embeddingAllFields
\* changes the field list, its order, or the set of owned matrices.
C15_FieldSetFixed ==
    /\ [](/\ embeddingFields = dataset.fields
          /\ DOMAIN embeddingDict = TokenFields
          /\ \A f \in DOMAIN embeddingDict :
                /\ Len(embeddingDict[f]) = num(f)
                /\ \A x \in 1..num(f) : Len(embeddingDict[f][x]) = embeddingSize
          /\ \A f \in Range(dataset.fields) :
                dataset.field2type[f] = "FLOAT" => f \notin DOMAIN embeddingDict)
    /\ [][/\ embeddingFields' = embeddingFields
          /\ DOMAIN embeddingDict' = DOMAIN embeddingDict
          /\ (nupdates' = nupdates => embeddingDict' = embeddingDict)
         ]_vars

\* C15 witness: the table of a dataset with TOKEN and FLOAT fields, after a
\* call of embeddingAllFields and one of embeddingSingleField, owns the
\* matrices of its two TOKEN fields, of 3 x 2 and of 2 x 2 entries.
C15_Witness ==
    /\ dataset.field2type = [user_id |-> "TOKEN", age |-> "FLOAT", item_id |-> "TOKEN"]
    /\ eLast.op = "embeddingSingleField"
    /\ ePrev.op = "embeddingAllFields"
    /\ embeddingFields = <<"user_id", "age", "item_id">>
    /\ DOMAIN embeddingDict = {"user_id", "item_id"}
    /\ Len(embeddingDict["user_id"]) = 3 /\ Len(embeddingDict["item_id"]) = 2

(***************************************************************************)
(* GradCollectors of parallel workers: properties.                         *)
(***************************************************************************)
\* C16: when the n tuples of a meta-batch are shared out among workers, each
\* worker accumulates its share into a private collector, the drained
\* mappings are accumulated into the shared collector in any order and
\* averageGrad(n) is applied once to it, the shared collector holds for every
\* parameter what one collector holds after accumulating the n tuples in
\* their order and averageGrad(n).
C16_MergeEqualsSequential ==
    shared.averaged =>
        /\ Keys(shared.gradDict) = paramNameList
        /\ \A i \in 1..Len(paramNameList) :
              Held(shared.gradDict, wheap, i) = SequentialResult(batch.tuples)[i]

(***************************************************************************)
(* Task: properties.                                                       *)
(***************************************************************************)
\* a task that the construction is to refuse
InvalidTask(taskInfo, spt, qrt) ==
    spt = <<>> \/ qrt = <<>> \/ "task_id" \notin DOMAIN taskInfo

\* C11: constructing a Task with an empty support set, an empty query set or
\* a taskInfo without task identifier fails, and no Task object with one of
\* these exists.
C11_InvalidTaskFails ==
    /\ (tLast.op = "Task" /\ InvalidTask(tLast.taskInfo, tLast.spt, tLast.qrt)) =>
           tLast.err # "none"
    /\ \A i \in 1..Len(taskObjs) :
           ~InvalidTask(taskObjs[i].taskInfo, taskObjs[i].spt, taskObjs[i].qrt)

=============================================================================
